---- MODULE Spec2Model ----
(***************************************************************************)
(* A model of app.py, the Streamlit stock dashboard.                       *)
(*                                                                         *)
(* The script is re-executed from its first line on every user             *)
(* interaction.  One execution is: the cached call of load_stock_data      *)
(* (line 68), the gate on its result (line 70), and either the dashboard   *)
(* body (lines 71-343: sidebar, date filter, the three computing tabs,     *)
(* footer) or the else branch (lines 345-346).                             *)
(*                                                                         *)
(* Spec is the program as written, started with an empty cache on every    *)
(* combination of present and absent CSV files.  The loader never returns  *)
(* a table (C10_NeverLoads), so the gate of line 70 never takes its first  *)
(* branch: the steps of the dashboard body are defined below as the code   *)
(* writes them, and are no disjunct of Next because no run takes them.     *)
(*                                                                         *)
(* Dates are day ordinals (what pd.to_datetime(...).date yields, compared  *)
(* as dates); closing prices are positive integers; quotients of floats    *)
(* are exact fractions [num, den] compared by cross-multiplication, and    *)
(* NaN is the fraction with den = 0.  Only the Date, Close and Source      *)
(* columns are carried: Open, High, Low and Volume are passed through by   *)
(* the code and decide no branch.                                          *)
(***************************************************************************)
EXTENDS Integers, Sequences, FiniteSets, TLC

\* ------------------------------------------------------------------ bounds
\* Dates of rows are 1..MaxDate; a file holds at most MaxDate rows (one per date).
MaxDate == 3
\* Closing prices are 1..MaxClose.
MaxClose == 2
\* The loader body is executed at most this many times in one behaviour.
MaxLoaderExecs == 3

\* --------------------------------------------------------------- constants
AAPL_CSV == "AAPL.csv"
NFLX_CSV == "NFLX.csv"
AllFiles == {AAPL_CSV, NFLX_CSV}

\* Source labels (lines 43 and 47) and tickers (line 78), as character sequences.
Kaggle_AAPL == <<"K","a","g","g","l","e","_","A","A","P","L">>
Kaggle_NFLX == <<"K","a","g","g","l","e","_","N","F","L","X">>
AAPL == <<"A","A","P","L">>
GOOGL == <<"G","O","O","G","L">>
available_stocks == <<AAPL, GOOGL>>

AnalysisTypes == {"Price Trends", "Volume Analysis", "Returns Comparison", "Correlation Matrix"}

LoaderMsg == "Stock data files not found. Please ensure CSV files are in the 'data' directory."
GateMsg == "Unable to load stock data. Please check your data files."

\* Python's None, and a bound optional value.
None == <<>>
Some(v) == <<v>>

\* The datasets the loader standardizes, concatenates and returns (lines 52, 59, 61).
DatasetNamesNoThird == <<"aapl_data", "googl_data">>
DatasetNames == <<"aapl_data", "googl_data", "msft_data">>

\* Names bound in the script's namespace when line 68 is reached (lines 1-6, 35).
ModuleNames == {"st", "pd", "px", "go", "datetime", "timedelta", "yf", "load_stock_data"}

\* ----------------------------------------------------------------- helpers
RECURSIVE Flatten(_)
Flatten(ss) == IF ss = <<>> THEN <<>> ELSE Head(ss) \o Flatten(Tail(ss))

Range(s) == {s[i] : i \in 1..Len(s)}

Take(s, n) == SubSeq(s, 1, IF Len(s) < n THEN Len(s) ELSE n)

\* Series.str.contains with a plain alphabetic pattern: substring search.
StrContains(s, pat) == \E i \in 0..(Len(s) - Len(pat)) : SubSeq(s, i + 1, i + Len(pat)) = pat

\* df['Source'] = label (lines 43, 47).
Tag(rows, label) == [i \in 1..Len(rows) |-> [Date |-> rows[i].Date, Close |-> rows[i].Close, Source |-> label]]

\* pd.concat(..., axis=0) (line 59).
Concat(dfs) == Flatten(dfs)

\* ------------------------------------------------------------ input tables
CsvRow == [Date : 1..MaxDate, Close : 1..MaxClose]

Chronological(t) == \A i, j \in 1..Len(t) : i < j => t[i].Date < t[j].Date

Reverse(t) == [i \in 1..Len(t) |-> t[Len(t) + 1 - i]]

\* AAPL.csv: one row per date, oldest first or newest first, any closes.
AaplFiles == {t \in UNION {[1..k -> CsvRow] : k \in 0..MaxDate} : Chronological(t) \/ Chronological(Reverse(t))}

\* NFLX.csv: no rows, or one row for every date (its closes are read by no slice).
NflxFiles == {<<>>, [d \in 1..MaxDate |-> [Date |-> d, Close |-> MaxClose]]}

VARIABLES
    csv,            \* file name -> rows of the file when it is present
    files,          \* the files present on disk
    cache,          \* st.cache_data's store for load_stock_data: None or Some(entry)
    pc,             \* position of the current script run
    exc,            \* the uncaught exception that ended the run, or "none"
    locals,         \* local names of load_stock_data bound so far -> table
    missed,         \* files pd.read_csv found absent in this run
    globals,        \* names bound in the script's namespace in this run
    combined_data,  \* line 68: None or Some(table)
    msgs,           \* st.error messages shown in the main page during this run
    loaderExecs,    \* executions of the loader body so far
    fileReads,      \* file name -> successful pd.read_csv calls so far
    selected_stocks, analysis_type, picked, start_date, end_date, sidebar_error,
    filtered_data, stock_data, metrics, traces, detail, stats_data

vars == <<csv, files, cache, pc, exc, locals, missed, globals, combined_data, msgs, loaderExecs, fileReads,
          selected_stocks, analysis_type, picked, start_date, end_date, sidebar_error,
          filtered_data, stock_data, metrics, traces, detail, stats_data>>

loadVars == <<cache, locals, missed, globals, combined_data, loaderExecs, fileReads>>
inputVars == <<selected_stocks, analysis_type, picked, start_date, end_date, sidebar_error>>
outputVars == <<filtered_data, stock_data, metrics, traces, detail, stats_data>>

NoDetail == [kind |-> "none"]
NoDates == [start |-> 0, end |-> 0]

\* A script run starts with nothing chosen, nothing rendered and fresh namespaces.
FreshRun ==
    /\ pc' = "call"
    /\ exc' = "none"
    /\ locals' = <<>>
    /\ missed' = {}
    /\ globals' = ModuleNames
    /\ combined_data' = None
    /\ msgs' = <<>>
    /\ selected_stocks' = <<>>
    /\ analysis_type' = "none"
    /\ picked' = NoDates
    /\ start_date' = 0
    /\ end_date' = 0
    /\ sidebar_error' = FALSE
    /\ filtered_data' = <<>>
    /\ stock_data' = <<>>
    /\ metrics' = <<>>
    /\ traces' = <<>>
    /\ detail' = NoDetail
    /\ stats_data' = <<>>

InitRun ==
    /\ pc = "call"
    /\ exc = "none"
    /\ locals = <<>>
    /\ missed = {}
    /\ globals = ModuleNames
    /\ combined_data = None
    /\ msgs = <<>>
    /\ selected_stocks = <<>>
    /\ analysis_type = "none"
    /\ picked = NoDates
    /\ start_date = 0
    /\ end_date = 0
    /\ sidebar_error = FALSE
    /\ filtered_data = <<>>
    /\ stock_data = <<>>
    /\ metrics = <<>>
    /\ traces = <<>>
    /\ detail = NoDetail
    /\ stats_data = <<>>

\* The process starts with an empty cache; any of the two files may be absent.
Init ==
    /\ \E a \in AaplFiles, n \in NflxFiles : csv = (AAPL_CSV :> a) @@ (NFLX_CSV :> n)
    /\ files \in SUBSET AllFiles
    /\ cache = None
    /\ loaderExecs = 0
    /\ fileReads = [f \in AllFiles |-> 0]
    /\ InitRun

\* --------------------------------------------------------------- the loader
\* Line 68 through @st.cache_data (line 34): a hit returns the stored value and
\* replays the st elements the function showed; a miss runs the body.
BindResult(names) == globals \cup {"combined_data"} \cup Range(names)

Call ==
    /\ pc = "call"
    /\ cache # None \/ loaderExecs < MaxLoaderExecs
    /\ IF cache # None
       THEN /\ combined_data' = cache[1].value
            /\ msgs' = msgs \o cache[1].shown
            /\ globals' = BindResult(DatasetNames)
            /\ pc' = "gate"
            /\ UNCHANGED loaderExecs
       ELSE /\ loaderExecs' = loaderExecs + 1
            /\ pc' = "read_aapl"
            /\ UNCHANGED <<combined_data, msgs, globals>>
    /\ UNCHANGED <<csv, files, cache, exc, locals, missed, fileReads, inputVars, outputVars>>

\* pd.read_csv(name) followed by df['Source'] = label; FileNotFoundError when absent.
ReadInto(file, name, label, next) ==
    /\ IF file \in files
       THEN /\ locals' = (name :> Tag(csv[file], label)) @@ locals
            /\ fileReads' = [fileReads EXCEPT ![file] = @ + 1]
            /\ pc' = next
            /\ UNCHANGED missed
       ELSE /\ missed' = missed \cup {file}
            /\ pc' = "except"
            /\ UNCHANGED <<locals, fileReads>>
    /\ UNCHANGED <<csv, files, cache, exc, globals, combined_data, msgs, loaderExecs, inputVars, outputVars>>

\* Lines 42-43.
ReadAAPL == pc = "read_aapl" /\ ReadInto(AAPL_CSV, "aapl_data", Kaggle_AAPL, "read_nflx")

\* Lines 46-47.
ReadNFLX == pc = "read_nflx" /\ ReadInto(NFLX_CSV, "googl_data", Kaggle_NFLX, "standardize")

\* Name lookup inside load_stock_data: locals, then the script's namespace.
Unresolved(names) == {n \in Range(names) : n \notin DOMAIN locals /\ n \notin globals}
NotATable(names) == {n \in Range(names) : n \notin DOMAIN locals /\ n \in globals}

\* Lines 52-61: the list of datasets is built (every name is looked up), each is
\* standardized (strip, to_datetime, set_index: the Date column becomes the index,
\* which the row's Date field already is), they are concatenated and returned; the
\* returned value is stored in the cache.  A NameError is not a FileNotFoundError:
\* it leaves the function, nothing is cached and the script run ends with it.
Standardize ==
    /\ pc = "standardize"
    /\ IF Unresolved(DatasetNames) # {}
       THEN /\ exc' = "NameError"
            /\ pc' = "crashed"
            /\ UNCHANGED <<cache, combined_data, globals>>
       ELSE IF NotATable(DatasetNames) # {}
       THEN /\ exc' = "AttributeError"
            /\ pc' = "crashed"
            /\ UNCHANGED <<cache, combined_data, globals>>
       ELSE /\ combined_data' = Some(Concat([i \in 1..Len(DatasetNames) |-> locals[DatasetNames[i]]]))
            /\ cache' = Some([value |-> combined_data', shown |-> <<>>])
            /\ globals' = BindResult(DatasetNames)
            /\ pc' = "gate"
            /\ UNCHANGED exc
    /\ UNCHANGED <<csv, files, locals, missed, msgs, loaderExecs, fileReads, inputVars, outputVars>>

\* Line 64: what the handler shows.
ExceptReport == <<LoaderMsg>>

\* Lines 63-65: the handler shows its message and returns four Nones; the return
\* value and the message shown are stored in the cache.
Except ==
    /\ pc = "except"
    /\ msgs' = msgs \o ExceptReport
    /\ combined_data' = None
    /\ cache' = Some([value |-> None, shown |-> ExceptReport])
    /\ globals' = BindResult(DatasetNames)
    /\ pc' = "gate"
    /\ UNCHANGED <<csv, files, exc, locals, missed, loaderExecs, fileReads, inputVars, outputVars>>

\* Line 70.
Gate ==
    /\ pc = "gate"
    /\ pc' = IF combined_data # None THEN "sidebar" ELSE "else"
    /\ UNCHANGED <<csv, files, exc, msgs, loadVars, inputVars, outputVars>>

\* Lines 345-346.
Else ==
    /\ pc = "else"
    /\ msgs' = Append(msgs, GateMsg)
    /\ pc' = "done"
    /\ UNCHANGED <<csv, files, exc, loadVars, inputVars, outputVars>>

\* A user interaction (or a page reload) re-executes the script.
Rerun ==
    /\ pc \in {"done", "crashed"}
    /\ FreshRun
    /\ UNCHANGED <<csv, files, cache, loaderExecs, fileReads>>

\* At any moment, during a run or between runs, a file may be removed from or
\* put back on disk.
FileChange ==
    /\ \E f \in AllFiles : files' = IF f \in files THEN files \ {f} ELSE files \cup {f}
    /\ UNCHANGED <<csv, cache, pc, exc, locals, missed, globals, combined_data, msgs, loaderExecs, fileReads, inputVars, outputVars>>

Next ==
    \/ Call
    \/ ReadAAPL
    \/ ReadNFLX
    \/ Standardize
    \/ Except
    \/ Gate
    \/ Else
    \/ Rerun
    \/ FileChange

Spec == Init /\ [][Next]_vars

\* ------------------------------------------------------- dashboard helpers
Min(S) == CHOOSE x \in S : \A y \in S : x <= y
Max(S) == CHOOSE x \in S : \A y \in S : x >= y

\* Sequences of distinct tickers: what st.multiselect can return (lines 79-83).
Selections == {s \in UNION {[1..k -> Range(available_stocks)] : k \in 0..Len(available_stocks)} : \A i, j \in 1..Len(s) : i # j => s[i] # s[j]}

\* Lines 104-106: the end date the filter uses.
CorrectedEnd(s, e) == IF s >= e THEN s + 1 ELSE e

\* Lines 116-117: the two boolean-mask selections on the index dates.
DateFilter(df, s, e) == SelectSeq(SelectSeq(df, LAMBDA r : r.Date >= s), LAMBDA r : r.Date <= e)

\* filtered_data[filtered_data['Source'].str.contains(stock)] (lines 129, 147, ...).
StockData(fd, stock) == SelectSeq(fd, LAMBDA r : StrContains(r.Source, stock))

\* not stock_data.empty (lines 130, 148, ...).
NotEmpty(df) == Len(df) > 0

CloseCol(df) == [i \in 1..Len(df) |-> df[i].Close]
DateCol(df) == [i \in 1..Len(df) |-> df[i].Date]

\* Series.iloc[i] with Python's indices: 0 is the first, -1 the last element.
HasILoc(col, i) == IF i >= 0 THEN i < Len(col) ELSE -i <= Len(col)
ILoc(col, i) == IF i >= 0 THEN col[i + 1] ELSE col[Len(col) + i + 1]

\* Lines 131-133 and the st.metric of lines 136-140 (the values before formatting).
MetricOf(stock, sd) ==
    LET c == CloseCol(sd)
        latest_price == ILoc(c, -1)
        price_change == ILoc(c, -1) - ILoc(c, 0)
    IN  [label |-> stock, latest_price |-> latest_price,
         price_change_pct |-> [num |-> price_change * 100, den |-> ILoc(c, 0)]]

\* ------------------------------------------------------ fractions and NaN
NaN == [num |-> 0, den |-> 0]
IsNaN(x) == x.den = 0
AsFrac(n) == [num |-> n, den |-> 1]
FracEq(x, y) == ~IsNaN(x) /\ ~IsNaN(y) /\ x.num * y.den = y.num * x.den
OnePlus(x) == IF IsNaN(x) THEN NaN ELSE [num |-> x.num + x.den, den |-> x.den]
MinusOne(x) == IF IsNaN(x) THEN NaN ELSE [num |-> x.num - x.den, den |-> x.den]
FracMul(x, y) == [num |-> x.num * y.num, den |-> x.den * y.den]
FracAdd(x, y) == [num |-> x.num * y.den + y.num * x.den, den |-> x.den * y.den]

\* Series.pct_change(): close[i]/close[i-1] - 1, NaN for the first element.
PctChange(col) == [i \in 1..Len(col) |-> IF i = 1 THEN NaN ELSE [num |-> col[i] - col[i - 1], den |-> col[i - 1]]]

\* Running accumulation that skips NaN (skipna): the position of a NaN stays NaN
\* and the accumulation goes on after it.
RECURSIVE Accumulate(_, _, _)
Accumulate(vals, n, op) ==
    IF n = 0 THEN [acc |-> NaN, out |-> <<>>]
    ELSE LET p == Accumulate(vals, n - 1, op)
         IN  IF IsNaN(vals[n]) THEN [acc |-> p.acc, out |-> Append(p.out, NaN)]
             ELSE LET a == IF IsNaN(p.acc) THEN vals[n] ELSE IF op = "prod" THEN FracMul(p.acc, vals[n]) ELSE FracAdd(p.acc, vals[n])
                  IN  [acc |-> a, out |-> Append(p.out, a)]

\* Series.cumprod().
CumProd(vals) == Accumulate(vals, Len(vals), "prod").out

\* A DataFrame: its index and its columns in insertion order.
EmptyFrame == [index |-> <<>>, columns |-> <<>>]
FrameEmpty(df) == Len(df.index) = 0 \/ Len(df.columns) = 0

\* The value of a series at an index label (NaN when the label is absent).
At(series, d) ==
    IF \E i \in 1..Len(series.index) : series.index[i] = d
    THEN series.values[CHOOSE i \in 1..Len(series.index) : series.index[i] = d]
    ELSE NaN

\* df[name] = series: the first column of an empty frame brings its index; a
\* later one is aligned to the frame's index.
SetColumn(df, name, series) ==
    IF Len(df.columns) = 0 /\ Len(df.index) = 0
    THEN [index |-> series.index, columns |-> <<[name |-> name, values |-> series.values]>>]
    ELSE [index |-> df.index,
          columns |-> Append(df.columns, [name |-> name, values |-> [i \in 1..Len(df.index) |-> At(series, df.index[i])]])]

\* The column a loop assigns: Close.pct_change() (line 231) or Close (line 259).
ColumnOf(kind, col) == IF kind = "returns" THEN PctChange(col) ELSE [i \in 1..Len(col) |-> AsFrac(col[i])]

\* The loops of lines 228-231 and 256-259 over the first n selected stocks.
RECURSIVE BuildFrame(_, _, _, _)
BuildFrame(fd, sel, n, kind) ==
    IF n = 0 THEN EmptyFrame
    ELSE LET df == BuildFrame(fd, sel, n - 1, kind)
             sd == StockData(fd, sel[n])
         IN  IF NotEmpty(sd)
             THEN SetColumn(df, sel[n], [index |-> DateCol(sd), values |-> ColumnOf(kind, CloseCol(sd))])
             ELSE df

\* Line 243: (1 + returns_data).cumprod() - 1, column by column.
CumReturns(rd) ==
    [index |-> rd.index,
     columns |-> [k \in 1..Len(rd.columns) |->
        [name |-> rd.columns[k].name,
         values |-> LET one == [i \in 1..Len(rd.index) |-> OnePlus(rd.columns[k].values[i])]
                        cp == CumProd(one)
                    IN  [i \in 1..Len(cp) |-> MinusOne(cp[i])]]]]

RECURSIVE Sum(_)
Sum(col) == IF col = <<>> THEN 0 ELSE Head(col) + Sum(Tail(col))

\* Lines 283-290 (mean, min and max of Close; Std Dev and Total Volume are not carried).
StatsOf(stock, sd) ==
    LET c == CloseCol(sd)
    IN  [Stock |-> stock, Mean |-> [num |-> Sum(c), den |-> Len(c)],
         MinPrice |-> Min(Range(c)), MaxPrice |-> Max(Range(c))]

\* The selected stocks whose slice passes the emptiness test, in selection order.
Shown(fd, sel) == SelectSeq(sel, LAMBDA s : NotEmpty(StockData(fd, s)))

\* --------------------------------------------------------- dashboard body
\* Lines 75-112: the widgets return the user's choices; the date inputs exist only
\* for a non-empty table and are bounded by its first and last date; lines 104-106
\* replace the end date when the start date is not before it.
Sidebar ==
    /\ pc = "sidebar"
    /\ \E sel \in Selections, a \in AnalysisTypes :
        /\ selected_stocks' = sel
        /\ analysis_type' = a
        /\ LET df == combined_data[1]
           IN  IF Len(df) > 0
               THEN \E s, e \in Min(Range(DateCol(df)))..Max(Range(DateCol(df))) :
                        /\ picked' = [start |-> s, end |-> e]
                        /\ start_date' = s
                        /\ sidebar_error' = (s >= e)
                        /\ end_date' = CorrectedEnd(s, e)
               ELSE UNCHANGED <<picked, start_date, end_date, sidebar_error>>
    /\ pc' = "filter"
    /\ UNCHANGED <<csv, files, exc, msgs, loadVars, outputVars>>

\* Lines 115-117.
Filter ==
    /\ pc = "filter"
    /\ IF Len(selected_stocks) > 0 /\ Len(combined_data[1]) > 0
       THEN /\ filtered_data' = DateFilter(combined_data[1], start_date, end_date)
            /\ pc' = "tab1"
       ELSE /\ pc' = "footer"
            /\ UNCHANGED filtered_data
    /\ UNCHANGED <<csv, files, exc, msgs, loadVars, inputVars, stock_data, metrics, traces, detail, stats_data>>

\* Lines 122-163: the metric cards of the first four selected stocks and the
\* overview traces.  Indexing an empty column raises IndexError.
Tab1 ==
    /\ pc = "tab1"
    /\ LET first4 == Take(selected_stocks, 4)
           cards == Shown(filtered_data, first4)
       IN  /\ stock_data' = [i \in 1..Len(selected_stocks) |->
                                [stock |-> selected_stocks[i], rows |-> StockData(filtered_data, selected_stocks[i])]]
           /\ IF \E i \in 1..Len(cards) : ~HasILoc(CloseCol(StockData(filtered_data, cards[i])), 0)
              THEN /\ exc' = "IndexError"
                   /\ pc' = "crashed"
                   /\ UNCHANGED <<metrics, traces>>
              ELSE /\ metrics' = [i \in 1..Len(cards) |-> MetricOf(cards[i], StockData(filtered_data, cards[i]))]
                   /\ traces' = LET sh == Shown(filtered_data, selected_stocks)
                                IN  [i \in 1..Len(sh) |->
                                        [name |-> sh[i],
                                         x |-> DateCol(StockData(filtered_data, sh[i])),
                                         y |-> CloseCol(StockData(filtered_data, sh[i]))]]
                   /\ pc' = "tab2"
                   /\ UNCHANGED exc
    /\ UNCHANGED <<csv, files, msgs, loadVars, inputVars, filtered_data, detail, stats_data>>

Tab2Frame == <<csv, files, exc, msgs, loadVars, inputVars, filtered_data, stock_data, metrics, traces, stats_data>>

\* Lines 168-200: a candlestick and a volume chart per stock with rows.
Tab2PriceTrends ==
    /\ pc = "tab2"
    /\ analysis_type = "Price Trends"
    /\ detail' = [kind |-> analysis_type, charts |-> Shown(filtered_data, selected_stocks)]
    /\ pc' = "tab3"
    /\ UNCHANGED Tab2Frame

\* Lines 202-222: one bar trace per stock with rows.
Tab2Volume ==
    /\ pc = "tab2"
    /\ analysis_type = "Volume Analysis"
    /\ detail' = [kind |-> analysis_type, bars |-> Shown(filtered_data, selected_stocks)]
    /\ pc' = "tab3"
    /\ UNCHANGED Tab2Frame

\* Lines 224-250.
Tab2Returns ==
    /\ pc = "tab2"
    /\ analysis_type = "Returns Comparison"
    /\ LET returns_data == BuildFrame(filtered_data, selected_stocks, Len(selected_stocks), "returns")
       IN  detail' = IF ~FrameEmpty(returns_data)
                     THEN [kind |-> analysis_type, returns_data |-> returns_data, cum_returns |-> CumReturns(returns_data)]
                     ELSE [kind |-> analysis_type, returns_data |-> returns_data, cum_returns |-> EmptyFrame]
    /\ pc' = "tab3"
    /\ UNCHANGED Tab2Frame

\* Lines 252-271: the frame of closing prices handed to DataFrame.corr(); the
\* matrix has one row and one column per column of the frame.
Tab2Correlation ==
    /\ pc = "tab2"
    /\ analysis_type = "Correlation Matrix"
    /\ LET corr_data == BuildFrame(filtered_data, selected_stocks, Len(selected_stocks), "closes")
       IN  detail' = [kind |-> analysis_type, corr_data |-> corr_data,
                      matrix |-> IF ~FrameEmpty(corr_data)
                                 THEN [i \in 1..Len(corr_data.columns) |-> corr_data.columns[i].name]
                                 ELSE <<>>]
    /\ pc' = "tab3"
    /\ UNCHANGED Tab2Frame

\* Lines 273-305.
Tab3 ==
    /\ pc = "tab3"
    /\ stats_data' = LET sh == Shown(filtered_data, selected_stocks)
                     IN  [i \in 1..Len(sh) |-> StatsOf(sh[i], StockData(filtered_data, sh[i]))]
    /\ pc' = "footer"
    /\ UNCHANGED <<csv, files, exc, msgs, loadVars, inputVars, filtered_data, stock_data, metrics, traces, detail>>

\* Lines 341-343.
Footer ==
    /\ pc = "footer"
    /\ pc' = "done"
    /\ UNCHANGED <<csv, files, exc, msgs, loadVars, inputVars, outputVars>>

\* ------------------------------------------------------------------ claims
\* The table handed to the dashboard body.
Table == IF combined_data = None THEN <<>> ELSE combined_data[1]

\* The rows of the table tagged for a ticker and dated within the filter's interval.
SliceOf(stock) == SelectSeq(Table, LAMBDA r : r.Source = <<"K","a","g","g","l","e","_">> \o stock /\ start_date <= r.Date /\ r.Date <= end_date)

\* The rows of the per-ticker slices the presentation consumes.
SliceRows == UNION {Range(stock_data[i].rows) : i \in 1..Len(stock_data)}

\* The end date of the interval asked for, from the dates the user picked.
EndUsed == IF picked.start < picked.end THEN picked.end ELSE picked.start + 1

NothingRendered ==
    /\ filtered_data = <<>>
    /\ stock_data = <<>>
    /\ metrics = <<>>
    /\ traces = <<>>
    /\ detail = NoDetail
    /\ stats_data = <<>>

\* A script run has ended, by reaching its last line or by an uncaught exception.
RunOver == pc \in {"done", "crashed"}

\* The loader of this run read both input files.
BothRead == DOMAIN locals = {"aapl_data", "googl_data"}

\* The load of this run found a file missing: pd.read_csv raised in this run, or
\* the run got the memoized result of a load in which it did (the cache holds
\* nothing else, C10_NeverLoads).
LoadFailed == missed # {} \/ cache # None

\* The run got through the presentation stage.
Presented == pc = "done" /\ exc = "none" /\ combined_data # None

\* C1, with its case: a run that read both input files presents a filtered view, and
\* every row of it is dated within the dates the user chose (start <= end).
C1_DateSoundness ==
    RunOver /\ BothRead =>
        /\ Presented
        /\ picked.start <= picked.end =>
            \A r \in SliceRows \cup Range(filtered_data) : picked.start <= r.Date /\ r.Date <= picked.end

\* C2, with its case: a run that read both input files presents per-ticker slices, and
\* every row of a slice is tagged for a selected ticker.
C2_SourceSoundness ==
    RunOver /\ BothRead =>
        /\ Presented
        /\ \A i \in 1..Len(stock_data) :
            /\ stock_data[i].stock \in Range(selected_stocks)
            /\ \A r \in Range(stock_data[i].rows) : r.Source = <<"K","a","g","g","l","e","_">> \o stock_data[i].stock

\* C3: in a run that read both input files with every offered ticker selected, each
\* loaded source (the rows tagged Kaggle_AAPL and the rows tagged Kaggle_NFLX) has
\* a slice holding exactly its rows dated within the interval.
C3_Completeness ==
    RunOver /\ BothRead =>
        /\ Presented
        /\ Range(selected_stocks) = Range(available_stocks) =>
            \A label \in {Kaggle_AAPL, Kaggle_NFLX} :
                \E i \in 1..Len(stock_data) :
                    stock_data[i].rows = SelectSeq(Table, LAMBDA r : r.Source = label /\ start_date <= r.Date /\ r.Date <= end_date)

\* C4: a run whose load found a file missing loads no table, renders nothing and
\* reports exactly one load-failure message.
C4_AllOrNothing ==
    RunOver /\ LoadFailed =>
        /\ combined_data = None
        /\ NothingRendered
        /\ Len(msgs) = 1

\* C5: a run that read both input files is not stopped; the filter gets the chosen start
\* date unchanged and, as end date, start + 1 day when start is not before end and
\* the chosen end date otherwise.
C5_Correction ==
    RunOver /\ BothRead =>
        /\ Presented
        /\ Len(Table) > 0 =>
            /\ start_date = picked.start
            /\ end_date = EndUsed

\* C6: each input file is read by at most one execution of the loader.
C6_LoadOnce == \A f \in AllFiles : fileReads[f] <= 1

\* C7: no run ends in an exception, and a metric, an overview trace and a
\* statistics record exist for a selected ticker exactly when its slice has rows.
C7_Graceful ==
    /\ exc = "none" /\ pc # "crashed"
    /\ pc = "done" =>
        \A s \in Range(selected_stocks) :
            /\ (\E i \in 1..Len(metrics) : metrics[i].label = s) <=> SliceOf(s) # <<>>
            /\ (\E i \in 1..Len(traces) : traces[i].name = s) <=> SliceOf(s) # <<>>
            /\ (\E i \in 1..Len(stats_data) : stats_data[i].Stock = s) <=> SliceOf(s) # <<>>

\* C8, with its case: a run that read both input files gets through the presentation,
\* and where it shows cumulative returns the last value of the column of a
\* selected ticker whose slice has n >= 2 closes equals close[n-1]/close[0] - 1.
C8_Telescoping ==
    RunOver /\ BothRead =>
        /\ Presented
        /\ detail.kind = "Returns Comparison" =>
            \A s \in Range(selected_stocks) :
                LET rows == SliceOf(s)
                    n == Len(rows)
                IN  n >= 2 =>
                        \E k \in 1..Len(detail.cum_returns.columns) :
                            LET col == detail.cum_returns.columns[k]
                            IN  /\ col.name = s
                                /\ Len(col.values) = n
                                /\ FracEq(col.values[n], [num |-> rows[n].Close - rows[1].Close, den |-> rows[1].Close])

\* C9, with its case: a run that read both input files gets through the presentation,
\* and the metric of a selected ticker with rows shows the close of the last row
\* of its slice and the change (last - first) / first * 100 over that slice.
C9_LatestAndChange ==
    RunOver /\ BothRead =>
        /\ Presented
        /\ \A s \in Range(selected_stocks) :
            LET rows == SliceOf(s)
                n == Len(rows)
            IN  n > 0 =>
                    \E i \in 1..Len(metrics) :
                        /\ metrics[i].label = s
                        /\ metrics[i].latest_price = rows[n].Close
                        /\ FracEq(metrics[i].price_change_pct, [num |-> (rows[n].Close - rows[1].Close) * 100, den |-> rows[1].Close])

\* C10: whatever files are present, no run obtains a combined table, reaches the
\* dashboard body or renders anything.
C10_NeverLoads ==
    /\ combined_data = None
    /\ cache # None => cache[1].value = None
    /\ pc \in {"call", "read_aapl", "read_nflx", "standardize", "except", "gate", "else", "done", "crashed"}
    /\ NothingRendered

\* C10: both files were read, and the run ended in NameError with nothing cached.
C10_Witness ==
    /\ pc = "crashed"
    /\ exc = "NameError"
    /\ BothRead
    /\ \A f \in AllFiles : fileReads[f] >= 1
    /\ cache = None

====
